---- MODULE Spec2Model ----
(***************************************************************************)
(* Model of the two prediction scripts run_prediction_on_acpi.py and       *)
(* run_prediction_on_adni.py: the subject resolver _get_paths, the setup   *)
(* of the data and prediction directories, the nested evaluation loop      *)
(* (atlas x split x measure x classifier), the results accumulator and the *)
(* per-atlas and aggregate CSV writes.                                     *)
(***************************************************************************)
EXTENDS Integers, Sequences, FiniteSets, TLC

(* ------------------------------ bounds --------------------------------- *)

\* Number of splits the generator yields per atlas (n_splits; 100 in the
\* scripts, scaled down so that whole runs are explored).
NSplits == 2

\* Number of entries of the classifier registry sklearn_classifiers.
NClassifiers == 2

\* Number of rows of the phenotype table used by whole runs.
NSubjects == 6

\* Longest phenotype table given to _get_paths when it is checked alone.
MaxRows == 3

(* ------------------------- static configuration ------------------------ *)

atlases == <<"AAL", "HarvardOxford", "BASC/networks", "BASC/regions",
             "Power", "MODL/64", "MODL/128">>

dimensions == [a \in {"AAL", "HarvardOxford", "BASC/networks", "BASC/regions",
                      "Power", "MODL/64", "MODL/128"} |->
                 CASE a = "AAL" -> 116
                   [] a = "HarvardOxford" -> 118
                   [] a = "BASC/networks" -> 122
                   [] a = "BASC/regions" -> 122
                   [] a = "Power" -> 264
                   [] a = "MODL/64" -> 64
                   [] a = "MODL/128" -> 128]

columns == <<"atlas", "measure", "classifier", "scores", "iter_shuffle_split",
             "dataset", "covariance_estimator", "dimensionality">>

measures == <<"correlation", "partial correlation", "tangent">>

\* Keys of the classifier registry, in the order keys() yields them.
sklearn_classifiers == [k \in 1..NClassifiers |-> k]

Datasets == {"ACPI", "ADNI"}

NoCsv == "None"

Range(s) == {s[i] : i \in 1..Len(s)}

(* ------------------------------ _get_paths ----------------------------- *)

\* join(timeseries_dir, atlas, <file name>): ACPI names the file
\* '00' + str(subj_id) + '-session_1' + '_timeseries.txt', ADNI names it
\* str(image_id) + '_timeseries.txt'.
TimeseriesPath(ds, atlas, id) ==
    IF ds = "ACPI"
    THEN <<atlas, "00", id, "-session_1", "_timeseries.txt">>
    ELSE <<atlas, id, "_timeseries.txt">>

\* np.loadtxt(this_timeseries): the matrix stored in that file.
LoadTxt(path) == [matrix_of |-> path]

\* Mutant of PathExists: every expected file is taken to exist.
PathExistsAlways(path, fs) == TRUE

\* os.path.exists(this_timeseries)
PathExists(path, fs) == path \in fs

\* phenotypes[phenotypes['SUBID'] == subj_id]: the rows of that subject,
\* in table order.
ThisPheno(phen, subj_id) == SelectSeq(phen, LAMBDA r : r.id = subj_id)

\* The label and the confound appended for the row at `index`:
\* ACPI reads them from the first row of this_pheno (.values[0]),
\* ADNI reads phenotypic['DX_Group'][index] and returns no confound.
RowLabel(ds, phen, index) ==
    IF ds = "ACPI" THEN ThisPheno(phen, phen[index].id)[1].label
    ELSE phen[index].label

RowConfound(ds, phen, index) == ThisPheno(phen, phen[index].id)[1].conf

EmptyPaths == [timeseries |-> <<>>, labels |-> <<>>, confounds |-> <<>>,
               ids |-> <<>>]

RECURSIVE GetPathsLoop(_, _, _, _, _, _)
GetPathsLoop(ds, phen, atlas, fs, index, acc) ==
    IF index > Len(phen) THEN acc
    ELSE LET id == phen[index].id
             this_timeseries == TimeseriesPath(ds, atlas, id)
         IN  IF PathExists(this_timeseries, fs)
             THEN GetPathsLoop(ds, phen, atlas, fs, index + 1,
                    [timeseries |-> Append(acc.timeseries,
                                           LoadTxt(this_timeseries)),
                     ids |-> Append(acc.ids, id),
                     labels |-> Append(acc.labels, RowLabel(ds, phen, index)),
                     confounds |-> IF ds = "ACPI"
                                   THEN Append(acc.confounds,
                                               RowConfound(ds, phen, index))
                                   ELSE acc.confounds])
             ELSE GetPathsLoop(ds, phen, atlas, fs, index + 1, acc)

GetPaths(ds, phen, atlas, fs) == GetPathsLoop(ds, phen, atlas, fs, 1, EmptyPaths)

(* ------------------- library calls made by the loop -------------------- *)

\* Mutant of Classes: the distinct labels are taken instead of the inverse.
ClassesUnique(labels) ==
    LET u == Range(labels)
    IN  [k \in 1..Cardinality(u) |->
            CHOOSE l \in u : Cardinality({x \in u : x < l}) = k - 1]

\* _, classes = np.unique(labels, return_inverse=True): every label replaced
\* by its rank among the distinct labels.
Classes(labels) ==
    [i \in 1..Len(labels) |->
        Cardinality({l \in Range(labels) : l < labels[i]})]

\* test_size=0.25 as the fraction 1 / TestSizeDen.
TestSizeDen == 4

\* StratifiedShuffleSplit(test_size=0.25): n_test = ceil(0.25 * n) and
\* n_train = n - n_test.
NTest(n) == (n + TestSizeDen - 1) \div TestSizeDen

NTrain(n) == n - NTest(n)

ClassCount(cls, c) == Cardinality({i \in 1..Len(cls) : cls[i] = c})

\* cv.split(timeseries, classes) raises ValueError on its first step when
\* there is no sample, when a class has fewer than two members, or when the
\* train or the test part is smaller than the number of classes.
SplitRaises(cls) ==
    LET n == Len(cls)
        k == Cardinality(Range(cls))
    IN  \/ n = 0
        \/ \E c \in Range(cls) : ClassCount(cls, c) < 2
        \/ NTrain(n) < k
        \/ NTest(n) < k

\* The i-th (i = 0, 1, ...) pair the seeded generator yields for n samples:
\* positions 1..n of the subject list, cut into a held-out part of n_test
\* positions and a training part of the n_train others.  random_state=0
\* makes the stream a function of the input; the stream is modelled by a
\* rotation that moves with i.
TestOf(n, i) == {((j + i * NTest(n)) % n) + 1 : j \in 0..(NTest(n) - 1)}

SplitPair(n, i) == [train |-> (1..n) \ TestOf(n, i), test |-> TestOf(n, i)]

\* ConnectivityMeasure(cov_estimator=LedoitWolf(assume_centered=True),
\* kind=measure).fit_transform(timeseries[, confounds]): one feature vector
\* per subject, in input order, fitted on the whole list it is given.
FitTransform(ts, kind, confounds) ==
    [kind |-> kind,
     fitted_on |-> 1..Len(ts),
     rows |-> ts,
     confounds |-> confounds]

\* Mutant of CrossValScore: the estimator is fitted on every subject.
CrossValScoreFitAll(est_key, coefs, cls, train, test) ==
    [estimator |-> est_key, kind |-> coefs.kind,
     fit_on |-> 1..Len(cls), scored_on |-> test,
     features_fitted_on |-> coefs.fitted_on]

\* cross_val_score(estimator, conn_coefs, classes, scoring='roc_auc',
\* cv=[(train_index, test_index)]): the score of the single fold, kept as
\* what it was computed from.
CrossValScore(est_key, coefs, cls, train, test) ==
    [estimator |-> est_key, kind |-> coefs.kind,
     fit_on |-> train, scored_on |-> test,
     features_fitted_on |-> coefs.fitted_on]

(* ------------------------- results accumulator ------------------------- *)

\* results = dict(); results.setdefault(column_name, []) for every column
EmptyResults == [c \in Range(columns) |-> <<>>]

\* Mutant of AppendRow: the dimensionality of a fixed atlas is recorded.
AppendRowFixedDim(res, atlas, index, measure, est_key, ds, score) ==
    [res EXCEPT !["atlas"] = Append(@, atlas),
                !["iter_shuffle_split"] = Append(@, index),
                !["measure"] = Append(@, measure),
                !["classifier"] = Append(@, est_key),
                !["dataset"] = Append(@, ds),
                !["dimensionality"] = Append(@, dimensions["AAL"]),
                !["scores"] = Append(@, score),
                !["covariance_estimator"] = Append(@, "LedoitWolf")]

\* The eight appends that follow cross_val_score.
AppendRow(res, atlas, index, measure, est_key, ds, score) ==
    [res EXCEPT !["atlas"] = Append(@, atlas),
                !["iter_shuffle_split"] = Append(@, index),
                !["measure"] = Append(@, measure),
                !["classifier"] = Append(@, est_key),
                !["dataset"] = Append(@, ds),
                !["dimensionality"] = Append(@, dimensions[atlas]),
                !["scores"] = Append(@, score),
                !["covariance_estimator"] = Append(@, "LedoitWolf")]

\* pd.DataFrame(results) raises ValueError unless all columns have the same
\* length.
FrameRaises(res) == \E c, d \in Range(columns) : Len(res[c]) # Len(res[d])

\* Mutant of Frame: only the head of the table is kept.
FrameHead(res) ==
    [c \in DOMAIN res |->
        IF Len(res[c]) = 0 THEN <<>> ELSE SubSeq(res[c], 1, 1)]

\* pd.DataFrame(results): the table that to_csv writes.
Frame(res) == res

\* Mutant of AtlasScoresPath: the atlas is left out of the path.
AtlasScoresPathFlat(atlas) == <<"data", "predictions", "", "scores.csv">>

\* join(predictions_dir, atlas, 'scores.csv')
AtlasScoresPath(atlas) == <<"data", "predictions", atlas, "scores.csv">>

\* 'predictions_on_acpi.csv' / 'predictions_on_adni.csv'
AggregatePath(ds) ==
    IF ds = "ACPI" THEN <<"predictions_on_acpi.csv">>
    ELSE <<"predictions_on_adni.csv">>

(* -------------------------------- state -------------------------------- *)

VARIABLES
    dataset,         \* which script runs: "ACPI" or "ADNI"
    csv_file,        \* path of the phenotype CSV, NoCsv when none is given
    dirs,            \* directories that exist
    downloaded,      \* fetch_acpi / fetch_adni has been called
    made_dirs,       \* directories created by os.makedirs, in call order
    phenotypes,      \* rows of the phenotype CSV: [id, label, conf]
    files,           \* time-series files present under timeseries_dir
    results,         \* the accumulator: column name -> list
    atlas_i,         \* position of `atlas` in atlases
    timeseries,      \* lists returned by _get_paths for the current atlas
    classes,
    sjtyps,
    index,           \* split index bound by enumerate(iter_for_prediction)
    train_index,
    test_index,
    measure_i,       \* position of `measure` in measures
    conn_coefs,
    est_i,           \* position of est_key in sklearn_classifiers.keys()
    get_paths_calls, \* atlases _get_paths was called with, in call order
    to_csv_calls,    \* paths given to to_csv, in call order
    disk,            \* content of the written CSV files, by path
    pc,              \* position of the script
    error,           \* the exception that ended the run, "" when none
    ret              \* what the calls of _get_paths returned (resolver runs)

vars == <<dataset, csv_file, dirs, downloaded, made_dirs, phenotypes, files,
          results, atlas_i, timeseries, classes, sjtyps, index, train_index,
          test_index, measure_i, conn_coefs, est_i, get_paths_calls,
          to_csv_calls, disk, pc, error, ret>>

config == <<dataset, csv_file, phenotypes, files>>

loop_vars == <<atlas_i, timeseries, classes, sjtyps, index, train_index,
               test_index, measure_i, conn_coefs, est_i>>

NoCoefs == [kind |-> "", fitted_on |-> {}, rows |-> <<>>, confounds |-> <<>>]

\* './ACPI' or './ADNI', and the predictions directory below it
DataDir == <<"data">>

PredictionsDir == <<"data", "predictions">>

\* The phenotype table of whole runs: NSubjects rows with distinct
\* identifiers, both labels and both confound values present.
RunTable ==
    [i \in 1..NSubjects |->
        [id |-> i, label |-> i % 2, conf |-> (i \div 2) % 2]]

\* Time-series files of a whole run: every subject has a file for every
\* atlas, except that for one atlas (if any) either all files or the first
\* subject's file are missing.  Runs with missing files start with the data
\* and predictions directories in place.
RunFiles(ds, hole, whole) ==
    {TimeseriesPath(ds, atlases[a], i) :
        a \in 1..Len(atlases), i \in 1..NSubjects} \
    {TimeseriesPath(ds, atlases[a], i) :
        a \in {hole} \cap (1..Len(atlases)),
        i \in IF whole THEN 1..NSubjects ELSE {1}}

InitLoop ==
    /\ results = EmptyResults
    /\ atlas_i = 0
    /\ timeseries = <<>>
    /\ classes = <<>>
    /\ sjtyps = <<>>
    /\ index = 0
    /\ train_index = {}
    /\ test_index = {}
    /\ measure_i = 0
    /\ conn_coefs = NoCoefs
    /\ est_i = 0
    /\ get_paths_calls = <<>>
    /\ to_csv_calls = <<>>
    /\ disk = <<>>
    /\ downloaded = FALSE
    /\ made_dirs = <<>>
    /\ error = ""
    /\ ret = <<>>

Init ==
    /\ dataset \in Datasets
    /\ csv_file \in IF dataset = "ADNI" THEN {NoCsv, "description_file.csv"}
                    ELSE {"mta_1_phenotypic_data.csv"}
    /\ dirs \in {{}, {DataDir}, {DataDir, PredictionsDir}}
    /\ phenotypes = RunTable
    /\ \E hole \in 0..Len(atlases), whole \in BOOLEAN :
          /\ hole = 0 => whole
          /\ hole # 0 => dirs = {DataDir, PredictionsDir}
          /\ files = RunFiles(dataset, hole, whole)
    /\ pc = "timeseries_dir"
    /\ InitLoop

(* ------------------------------- the script ---------------------------- *)

\* timeseries_dir = None: './ACPI' ('./ADNI') is used, and fetched when it
\* does not exist.
SetupTimeseriesDir ==
    /\ pc = "timeseries_dir"
    /\ IF DataDir \in dirs
       THEN UNCHANGED <<dirs, downloaded>>
       ELSE /\ downloaded' = TRUE
            /\ dirs' = dirs \cup {DataDir}
    /\ pc' = "predictions_dir"
    /\ UNCHANGED <<config, made_dirs, results, loop_vars, get_paths_calls,
                   to_csv_calls, disk, error, ret>>

\* predictions_dir = None: '<data dir>/predictions' is used, and created
\* when it does not exist.
SetupPredictionsDir ==
    /\ pc = "predictions_dir"
    /\ IF PredictionsDir \in dirs
       THEN UNCHANGED <<dirs, made_dirs>>
       ELSE /\ made_dirs' = Append(made_dirs, PredictionsDir)
            /\ dirs' = dirs \cup {PredictionsDir}
    /\ pc' = "phenotypes"
    /\ UNCHANGED <<config, downloaded, results, loop_vars, get_paths_calls,
                   to_csv_calls, disk, error, ret>>

\* ADNI: if csv_file is None: raise ValueError(...); then pd.read_csv.
\* ACPI: pd.read_csv(pheno_dir).
ReadPhenotypes ==
    /\ pc = "phenotypes"
    /\ IF csv_file = NoCsv
       THEN /\ pc' = "aborted"
            /\ error' = "ValueError: csv file not provided"
       ELSE /\ pc' = "atlas_loop"
            /\ error' = error
    /\ UNCHANGED <<config, dirs, downloaded, made_dirs, results, loop_vars,
                   get_paths_calls, to_csv_calls, disk, ret>>

\* for atlas in atlases: _get_paths, np.unique, cv.split (a generator: it
\* runs nothing before its first step).
ResolveAtlas ==
    /\ pc = "atlas_loop"
    /\ atlas_i < Len(atlases)
    /\ LET atlas == atlases[atlas_i + 1]
           r == GetPaths(dataset, phenotypes, atlas, files)
       IN  /\ atlas_i' = atlas_i + 1
           /\ get_paths_calls' = Append(get_paths_calls, atlas)
           /\ timeseries' = r.timeseries
           /\ classes' = Classes(r.labels)
           /\ sjtyps' = r.confounds
    /\ index' = -1
    /\ pc' = "split_loop"
    /\ UNCHANGED <<config, dirs, downloaded, made_dirs, results, train_index,
                   test_index, measure_i, conn_coefs, est_i, to_csv_calls,
                   disk, error, ret>>

\* for index, (train_index, test_index) in enumerate(iter_for_prediction):
\* one step of the generator.  Its first step validates the input and may
\* raise; after NSplits pairs it is exhausted and the atlas is written.
NextSplit ==
    /\ pc = "split_loop"
    /\ IF index = -1 /\ SplitRaises(classes)
       THEN /\ pc' = "aborted"
            /\ error' = "ValueError: split"
            /\ UNCHANGED <<index, train_index, test_index, measure_i>>
       ELSE IF index + 1 < NSplits
       THEN /\ index' = index + 1
            /\ train_index' = SplitPair(Len(classes), index + 1).train
            /\ test_index' = SplitPair(Len(classes), index + 1).test
            /\ measure_i' = 0
            /\ pc' = "measure_loop"
            /\ error' = error
       ELSE /\ pc' = "write_atlas"
            /\ UNCHANGED <<index, train_index, test_index, measure_i, error>>
    /\ UNCHANGED <<config, dirs, downloaded, made_dirs, results, atlas_i,
                   timeseries, classes, sjtyps, conn_coefs, est_i,
                   get_paths_calls, to_csv_calls, disk, ret>>

\* for measure in measures: connections.fit_transform(timeseries) (ADNI),
\* connections.fit_transform(timeseries, confounds=np.array(sjtyps)) (ACPI)
FitMeasure ==
    /\ pc = "measure_loop"
    /\ measure_i < Len(measures)
    /\ measure_i' = measure_i + 1
    /\ conn_coefs' = FitTransform(timeseries, measures[measure_i + 1],
                                  IF dataset = "ACPI" THEN sjtyps ELSE <<>>)
    /\ est_i' = 0
    /\ pc' = "clf_loop"
    /\ UNCHANGED <<config, dirs, downloaded, made_dirs, results, atlas_i,
                   timeseries, classes, sjtyps, index, train_index,
                   test_index, get_paths_calls, to_csv_calls, disk, error,
                   ret>>

\* Mutant of AfterCell: the measure loop is left after its first measure.
AfterCellOneMeasure(e, m) ==
    IF e < NClassifiers THEN "clf_loop" ELSE "split_loop"

\* Where the script stands after the cell of classifier number e of measure
\* number m: the next classifier, else the next measure, else the next step
\* of the split generator.
AfterCell(e, m) ==
    IF e < NClassifiers THEN "clf_loop"
    ELSE IF m < Len(measures) THEN "measure_loop"
    ELSE "split_loop"

\* for est_key in sklearn_classifiers.keys(): cross_val_score on the single
\* (train_index, test_index) fold, then the eight appends.
EvalCell ==
    /\ pc = "clf_loop"
    /\ est_i < NClassifiers
    /\ LET est_key == sklearn_classifiers[est_i + 1]
           score == CrossValScore(est_key, conn_coefs, classes, train_index,
                                  test_index)
       IN  results' = AppendRow(results, atlases[atlas_i], index,
                                measures[measure_i], est_key, dataset, score)
    /\ est_i' = est_i + 1
    /\ pc' = AfterCell(est_i + 1, measure_i)
    /\ UNCHANGED <<config, dirs, downloaded, made_dirs, atlas_i, timeseries,
                   classes, sjtyps, index, train_index, test_index,
                   measure_i, conn_coefs, get_paths_calls, to_csv_calls,
                   disk, error, ret>>

\* res = pd.DataFrame(results); makedirs(this_atlas_dir) when it does not
\* exist; res.to_csv(join(this_atlas_dir, 'scores.csv'))
WriteAtlas ==
    /\ pc = "write_atlas"
    /\ IF FrameRaises(results)
       THEN /\ pc' = "aborted"
            /\ error' = "ValueError: arrays must all be same length"
            /\ UNCHANGED <<dirs, made_dirs, to_csv_calls, disk>>
       ELSE LET atlas == atlases[atlas_i]
                this_atlas_dir == <<"data", "predictions", atlas>>
            IN  /\ IF this_atlas_dir \in dirs
                   THEN UNCHANGED <<dirs, made_dirs>>
                   ELSE /\ dirs' = dirs \cup {this_atlas_dir}
                        /\ made_dirs' = Append(made_dirs, this_atlas_dir)
                /\ disk' = (AtlasScoresPath(atlas) :> Frame(results)) @@ disk
                /\ to_csv_calls' = Append(to_csv_calls, AtlasScoresPath(atlas))
                /\ pc' = IF atlas_i < Len(atlases) THEN "atlas_loop"
                         ELSE "write_aggregate"
                /\ error' = error
    /\ UNCHANGED <<config, downloaded, results, loop_vars, get_paths_calls,
                   ret>>

\* all_results = pd.DataFrame(results); all_results.to_csv(<aggregate>)
WriteAggregate ==
    /\ pc = "write_aggregate"
    /\ IF FrameRaises(results)
       THEN /\ pc' = "aborted"
            /\ error' = "ValueError: arrays must all be same length"
            /\ UNCHANGED <<to_csv_calls, disk>>
       ELSE /\ disk' = (AggregatePath(dataset) :> Frame(results)) @@ disk
            /\ to_csv_calls' = Append(to_csv_calls, AggregatePath(dataset))
            /\ pc' = "done"
            /\ error' = error
    /\ UNCHANGED <<config, dirs, downloaded, made_dirs, results, loop_vars,
                   get_paths_calls, ret>>

\* A call into the libraries raises (pd.read_csv, np.loadtxt in _get_paths,
\* fit_transform, cross_val_score, os.makedirs, to_csv): nothing catches it
\* and the script ends where it stands.
Raise ==
    /\ pc \in {"phenotypes", "atlas_loop", "measure_loop", "clf_loop",
               "write_atlas", "write_aggregate"}
    /\ pc = "phenotypes" => csv_file # NoCsv
    /\ pc = "atlas_loop" => atlas_i < Len(atlases)
    /\ pc = "measure_loop" => measure_i < Len(measures)
    /\ pc' = "aborted"
    /\ error' = "raised"
    /\ UNCHANGED <<config, dirs, downloaded, made_dirs, results, loop_vars,
                   get_paths_calls, to_csv_calls, disk, ret>>

Next ==
    \/ SetupTimeseriesDir
    \/ SetupPredictionsDir
    \/ ReadPhenotypes
    \/ ResolveAtlas
    \/ NextSplit
    \/ FitMeasure
    \/ EvalCell
    \/ WriteAtlas
    \/ WriteAggregate
    \/ Raise

Spec == Init /\ [][Next]_vars

(* --------------------------- _get_paths alone -------------------------- *)

PhenoIds == {1, 2, 3}

PhenoLabels == {0, 1}

\* Rows of the tables given to the resolver: any identifier with any label;
\* the confound varies with both.
PhenoRows ==
    {[id |-> i, label |-> l, conf |-> (i + l) % 2] :
        i \in PhenoIds, l \in PhenoLabels}

PhenoTables == UNION {[1..n -> PhenoRows] : n \in 0..MaxRows}

\* Atlases the resolver is called with; only the first has files.
ResolverAtlases == {"AAL", "Power"}

InitPaths ==
    /\ dataset \in Datasets
    /\ csv_file = "phenotypes.csv"
    /\ dirs = {DataDir, PredictionsDir}
    /\ phenotypes \in PhenoTables
    /\ files \in SUBSET {TimeseriesPath(dataset, "AAL", i) : i \in PhenoIds}
    /\ pc = "resolver"
    /\ InitLoop

\* _get_paths(phenotypes, atlas, timeseries_dir), called once and then once
\* more with the same arguments.
CallGetPaths ==
    /\ pc = "resolver"
    /\ Len(ret) < 2
    /\ \E atlas \in ResolverAtlases :
          /\ \A k \in 1..Len(get_paths_calls) : get_paths_calls[k] = atlas
          /\ get_paths_calls' = Append(get_paths_calls, atlas)
          /\ ret' = Append(ret, GetPaths(dataset, phenotypes, atlas, files))
    /\ UNCHANGED <<config, dirs, downloaded, made_dirs, results, loop_vars,
                   to_csv_calls, disk, pc, error>>

NextPaths == CallGetPaths

SpecPaths == InitPaths /\ [][NextPaths]_vars

(* ------------------------------ properties ----------------------------- *)

NRows == Len(results["atlas"])

RowTuple(res, j) ==
    <<res["atlas"][j], res["iter_shuffle_split"][j], res["measure"][j],
      res["classifier"][j]>>

AllTuples ==
    {<<a, i, m, c>> : a \in Range(atlases), i \in 0..(NSplits - 1),
                      m \in Range(measures), c \in Range(sklearn_classifiers)}

AtlasPos(a) == CHOOSE k \in 1..Len(atlases) : atlases[k] = a

\* Positions of the phenotype rows whose file exists for atlas a, in order.
KeptRows(a) ==
    SelectSeq([i \in 1..Len(phenotypes) |-> i],
              LAMBDA i : TimeseriesPath(dataset, a, phenotypes[i].id) \in files)

LoopPcs == {"split_loop", "measure_loop", "clf_loop", "write_atlas"}

\* C1: the results table never holds two rows with the same (atlas, split,
\* measure, classifier) tuple, every row's tuple is one of the
\* |atlases| x NSplits x |measures| x |classifiers| tuples of the loop (so the
\* table has at most that many rows), and a run that completes holds exactly
\* one row for each of them.
C1_OneRowPerTuple ==
    LET tuples == {RowTuple(results, j) : j \in 1..NRows}
    IN  /\ Cardinality(tuples) = NRows
        /\ tuples \subseteq AllTuples
        /\ NRows <= Len(atlases) * Len(measures) * NClassifiers * NSplits
        /\ pc = "done" =>
              /\ tuples = AllTuples
              /\ NRows = Len(atlases) * Len(measures) * NClassifiers * NSplits

C1_Witness ==
    /\ pc = "done"
    /\ NRows = Len(atlases) * Len(measures) * NClassifiers * NSplits
    /\ NRows > 0

\* C2: the calls of to_csv are, in order, one per atlas to
\* <predictions_dir>/<atlas>/scores.csv and then one to the aggregate file;
\* the write of atlas k happens while no row of a later atlas exists and
\* after all rows of atlas k, and its content is the whole table at that
\* time (the rows of atlases 1..k); the aggregate write comes last and holds
\* every row of the run.
C2_WritesOrdered ==
    /\ Len(to_csv_calls) <= Len(atlases) + 1
    /\ \A k \in 1..Len(to_csv_calls) :
          to_csv_calls[k] =
             IF k <= Len(atlases)
             THEN <<"data", "predictions", atlases[k], "scores.csv">>
             ELSE AggregatePath(dataset)
    /\ pc \in LoopPcs => Len(to_csv_calls) = atlas_i - 1
    /\ pc = "atlas_loop" => Len(to_csv_calls) = atlas_i
    /\ \A k \in 1..Len(to_csv_calls) :
          LET file == disk[to_csv_calls[k]]
              n == Len(file["atlas"])
          IN  /\ \A c \in Range(columns) : file[c] = SubSeq(results[c], 1, n)
              /\ k <= Len(atlases) =>
                    \A j \in 1..NRows :
                       (AtlasPos(results["atlas"][j]) <= k) <=> (j <= n)
              /\ k = Len(atlases) + 1 => n = NRows
    /\ pc = "done" => Len(to_csv_calls) = Len(atlases) + 1

C2_Witness ==
    /\ pc = "done"
    /\ Len(to_csv_calls) = Len(atlases) + 1
    /\ Len(disk[to_csv_calls[1]]["atlas"]) > 0
    /\ Len(disk[to_csv_calls[1]]["atlas"]) < Len(disk[to_csv_calls[2]]["atlas"])

\* C3: every row's dimensionality is the value the dimensions table gives
\* for the row's atlas, the table has the seven documented values, and every
\* atlas of the atlas list has an entry.
C3_DimensionalityMatches ==
    /\ \A j \in 1..NRows :
          results["dimensionality"][j] = dimensions[results["atlas"][j]]
    /\ Range(atlases) \subseteq DOMAIN dimensions
    /\ dimensions["AAL"] = 116 /\ dimensions["HarvardOxford"] = 118
    /\ dimensions["BASC/networks"] = 122 /\ dimensions["BASC/regions"] = 122
    /\ dimensions["Power"] = 264 /\ dimensions["MODL/64"] = 64
    /\ dimensions["MODL/128"] = 128

C3_Witness ==
    /\ NRows > 0
    /\ results["atlas"][NRows] = "MODL/128"
    /\ results["dimensionality"][NRows] = 128

\* Identifiers of the phenotype rows whose file exists for atlas a, in
\* table order.
ExistingIds(a) ==
    SelectSeq([i \in 1..Len(phenotypes) |-> phenotypes[i].id],
              LAMBDA id : TimeseriesPath(dataset, a, id) \in files)

\* C4: a call of _get_paths returns, in phenotype-table order, exactly the
\* identifiers whose time-series file exists for the atlas; identifiers
\* without a file are skipped and no error ends the call; a second call on
\* the same table and files returns the same lists.
C4_ResolverReturnsExisting ==
    /\ \A k \in 1..Len(ret) :
          /\ ret[k].ids = ExistingIds(get_paths_calls[k])
          /\ Len(ret[k].timeseries) = Len(ret[k].ids)
    /\ error = ""
    /\ Len(ret) = 2 => ret[2] = ret[1]

C4_Witness ==
    /\ Len(ret) = 2
    /\ Len(phenotypes) = MaxRows
    /\ Len(ret[1].ids) = MaxRows - 1
    /\ ret[1].ids[1] # ret[1].ids[2]
    /\ ret[2] = ret[1]

\* C5: the lists _get_paths returns have the same length, and position i of
\* each holds the time series, the label, the confound (ACPI) and the
\* identifier of one and the same phenotype row: the i-th row whose file
\* exists.
C5_ListsAligned ==
    \A k \in 1..Len(ret) :
       LET kept == KeptRows(get_paths_calls[k])
           r == ret[k]
       IN  /\ Len(r.ids) = Len(kept)
           /\ Len(r.timeseries) = Len(kept)
           /\ Len(r.labels) = Len(kept)
           /\ dataset = "ACPI" => Len(r.confounds) = Len(kept)
           /\ \A i \in 1..Len(kept) :
                 LET row == phenotypes[kept[i]]
                 IN  /\ r.ids[i] = row.id
                     /\ r.timeseries[i] =
                           LoadTxt(TimeseriesPath(dataset, get_paths_calls[k],
                                                  row.id))
                     /\ r.labels[i] = row.label
                     /\ dataset = "ACPI" => r.confounds[i] = row.conf

\* C6: when the run ends with the missing-csv configuration error, nothing
\* has been done before it: no download, no directory created, no subject
\* resolved, no row appended, no file written.
C6_FailsBeforeAnything ==
    error = "ValueError: csv file not provided" =>
       /\ ~downloaded
       /\ made_dirs = <<>>
       /\ get_paths_calls = <<>>
       /\ NRows = 0
       /\ to_csv_calls = <<>>

\* C7: when _get_paths resolved no subject for the current atlas, the run is
\* not ended by an error: the atlas gets no row and the loop carries on.
C7_ZeroSubjectsNoCrash ==
    (atlas_i >= 1 /\ Len(get_paths_calls) = atlas_i /\ timeseries = <<>>) =>
       pc # "aborted"

\* Row j of the results table is row j of the file.
FileHasRow(file, j) ==
    /\ j <= Len(file["atlas"])
    /\ \A c \in Range(columns) : file[c][j] = results[c][j]

\* The file has the eight columns, all of the same length.
FileWellFormed(file) ==
    /\ DOMAIN file = Range(columns)
    /\ \A c, d \in Range(columns) : Len(file[c]) = Len(file[d])

\* C8 as stated: after an abort every row of the results table is contained
\* in a file on disk, and every file has the eight columns at equal length.
C8_EveryRowOnDisk ==
    pc = "aborted" =>
       /\ \A j \in 1..NRows : \E p \in DOMAIN disk : FileHasRow(disk[p], j)
       /\ \A p \in DOMAIN disk : FileWellFormed(disk[p])

\* C8 amended: after an abort every row of an atlas whose per-atlas file has
\* been written is contained in that file, and every file on disk has the
\* eight columns at equal length.
C8_WrittenAtlasesOnDisk ==
    pc = "aborted" =>
       /\ \A j \in 1..NRows :
             LET p == <<"data", "predictions", results["atlas"][j],
                        "scores.csv">>
             IN  /\ AtlasPos(results["atlas"][j]) < atlas_i => p \in DOMAIN disk
                 /\ p \in DOMAIN disk => FileHasRow(disk[p], j)
       /\ \A p \in DOMAIN disk : FileWellFormed(disk[p])

C8_Witness ==
    /\ pc = "aborted"
    /\ atlas_i = 3
    /\ DOMAIN disk = {AtlasScoresPath(atlases[1]), AtlasScoresPath(atlases[2])}
    /\ NRows > Len(disk[AtlasScoresPath(atlases[2])]["atlas"])
    /\ Len(disk[AtlasScoresPath(atlases[2])]["atlas"]) > 0

\* C9: _get_paths is called exactly once per atlas, in atlas order, and
\* while the splits, measures and classifiers of an atlas run the
\* time-series list, the classes and the confounds are the ones that call
\* returned: they do not change, and every row of the atlas is computed on
\* the whole of that subject list, split into its training and held-out
\* part.
C9_Frame ==
    (pc \in LoopPcs /\ pc' \in LoopPcs \cup {"atlas_loop", "write_aggregate",
                                            "aborted"}) =>
       /\ timeseries' = timeseries
       /\ classes' = classes
       /\ sjtyps' = sjtyps
       /\ get_paths_calls' = get_paths_calls

C9_State ==
    /\ Len(get_paths_calls) = atlas_i
    /\ \A k \in 1..Len(get_paths_calls) : get_paths_calls[k] = atlases[k]
    /\ atlas_i >= 1 =>
          LET kept == KeptRows(atlases[atlas_i])
          IN  /\ timeseries =
                    [i \in 1..Len(kept) |->
                        LoadTxt(TimeseriesPath(dataset, atlases[atlas_i],
                                               phenotypes[kept[i]].id))]
              /\ Len(classes) = Len(kept)
              /\ dataset = "ACPI" => Len(sjtyps) = Len(kept)
    /\ \A j \in 1..NRows :
          LET subjects == 1..Len(KeptRows(results["atlas"][j]))
              score == results["scores"][j]
          IN  score.fit_on \cup score.scored_on = subjects

C9_SubjectsDerivedOnce == [](C9_State) /\ [][C9_Frame]_vars

C9_Witness ==
    /\ pc = "done"
    /\ Len(get_paths_calls) = Len(atlases)
    /\ \E j \in 1..NRows :
          Len(KeptRows(results["atlas"][j])) = NSubjects - 1

\* C10 as stated: the row with split index i is computed with the i-th
\* (train, test) pair of its atlas, fitted on train and scored on test,
\* train and test are disjoint, and no held-out subject enters a fitting
\* step of the cell, the connectivity feature fit included.
C10_NoHeldOutInAnyFit ==
    \A j \in 1..NRows :
       LET n == Len(KeptRows(results["atlas"][j]))
           i == results["iter_shuffle_split"][j]
           score == results["scores"][j]
       IN  /\ score.scored_on = TestOf(n, i)
           /\ score.fit_on = (1..n) \ TestOf(n, i)
           /\ score.fit_on \cap score.scored_on = {}
           /\ score.features_fitted_on \cap score.scored_on = {}

\* C10 amended: as stated for the classifier (fitted on train only, scored on
\* test only, the i-th pair, train and test disjoint); the connectivity
\* feature fit of the cell runs on every subject of the atlas, held-out
\* subjects included.
C10_ClassifierFitOnTrainOnly ==
    \A j \in 1..NRows :
       LET n == Len(KeptRows(results["atlas"][j]))
           i == results["iter_shuffle_split"][j]
           score == results["scores"][j]
       IN  /\ score.scored_on = TestOf(n, i)
           /\ score.fit_on = (1..n) \ TestOf(n, i)
           /\ score.fit_on \cap score.scored_on = {}
           /\ score.scored_on # {}
           /\ score.features_fitted_on = 1..n
           /\ score.estimator = results["classifier"][j]
           /\ score.kind = results["measure"][j]

C10_Witness ==
    /\ NRows > 1
    /\ results["iter_shuffle_split"][NRows] = NSplits - 1
    /\ results["scores"][NRows].scored_on # results["scores"][1].scored_on
    /\ results["scores"][NRows].fit_on # {}

====
